---- MODULE Spec2Model ----
(***************************************************************************)
(* A model of the CPU-scheduling simulator: the Process record             *)
(* (workload.py), the six dispatch policies (algorithms.py) and the driver *)
(* and metrics of main.py.  One action is one iteration of a policy's run  *)
(* loop.  Python object references are modelled by a heap of regions: the  *)
(* region 0 holds the objects of the dataset, the region k the objects     *)
(* that copy.deepcopy made for the k-th scheduler.                         *)
(***************************************************************************)
EXTENDS Integers, Sequences, FiniteSets, TLC

\* ------------------------------------------------------------------ bounds
NumProcs == 2
MaxArrival == 2
MaxBurst == 3
MaxBursts == 2
MaxPriority == 2
MaxQuantum == 2

\* ------------------------------------------------------- program constants
WINDOW_SIZE == 5
UNSET_START == -1
UNSET_COMPLETION == 0

VARIABLES
    heap,               \* region -> (pid -> Process record)
    schedulers,         \* the list of policy objects (their attributes)
    cur,                \* index of the scheduler whose run() is executing
    time, queue, p_idx, \* locals of run()
    current_p,          \* local of SRTF.run (0 is None)
    current_p_runtime,  \* local of PriorityRR.run
    tq,                 \* local of FemtoScheduler.run (0 before the first dispatch)
    dispatches,         \* per scheduler: the number of dispatches its run performed
    metrics             \* what calculate_metrics returned or raised ("none" before the call)

vars == <<heap, schedulers, cur, time, queue, p_idx, current_p,
          current_p_runtime, tq, dispatches, metrics>>

Pids == 1..NumProcs

\* ----------------------------------------------------------------- helpers
Min(a, b) == IF a <= b THEN a ELSE b
Max(a, b) == IF a >= b THEN a ELSE b

RECURSIVE SumSeq(_)
SumSeq(s) == IF s = <<>> THEN 0 ELSE Head(s) + SumSeq(Tail(s))

RECURSIVE MinSeq(_)
MinSeq(s) == IF Len(s) = 1 THEN s[1] ELSE Min(s[1], MinSeq(Tail(s)))

RECURSIVE MaxSeq(_)
MaxSeq(s) == IF Len(s) = 1 THEN s[1] ELSE Max(s[1], MaxSeq(Tail(s)))

\* insert x behind every element whose key is <= key[x] (keeps equal keys in order)
RECURSIVE InsertByKey(_, _, _)
InsertByKey(s, x, key) ==
    IF s = <<>> THEN <<x>>
    ELSE IF key[Head(s)] <= key[x]
         THEN <<Head(s)>> \o InsertByKey(Tail(s), x, key)
         ELSE <<x>> \o s

\* list.sort(key=...) / sorted(..., key=...): a stable sort
RECURSIVE StableSort(_, _)
StableSort(s, key) ==
    IF s = <<>> THEN <<>>
    ELSE InsertByKey(StableSort(SubSeq(s, 1, Len(s) - 1), key), s[Len(s)], key)

\* insert a number into an ascending sequence of numbers
RECURSIVE InsertNum(_, _)
InsertNum(s, x) ==
    IF s = <<>> THEN <<x>>
    ELSE IF Head(s) <= x THEN <<Head(s)>> \o InsertNum(Tail(s), x)
         ELSE <<x>> \o s

RECURSIVE SortNums(_)
SortNums(s) == IF s = <<>> THEN <<>> ELSE InsertNum(SortNums(Tail(s)), Head(s))

\* ------------------------------------------------------------- workload.py
\* Process.__init__: the state of a freshly constructed process
Process(arrival_time, bursts, priority) ==
    [arrival_time |-> arrival_time,
     bursts |-> bursts,
     priority |-> priority,
     current_burst_index |-> 0,
     remaining_time |-> IF bursts = <<>> THEN 0 ELSE bursts[1],
     start_time |-> UNSET_START,
     completion_time |-> UNSET_COMPLETION,
     burst_history |-> <<>>,
     current_burst_accumulated |-> 0]

\* ----------------------------------------------------------- algorithms.py
\* Scheduler.__init__: the attributes every policy object has
Scheduler(name, processes) ==
    [name |-> name, processes |-> processes, completed_processes |-> <<>>]

FCFS(processes) == Scheduler("FCFS", processes)
SJF(processes) == Scheduler("SJF", processes)
SRTF(processes) == Scheduler("SRTF", processes)

\* PriorityRR.__init__ and RoundRobin.__init__ store the quantum as given
PriorityRR(processes, quantum) ==
    [name |-> "PriorityRR", processes |-> processes,
     completed_processes |-> <<>>, quantum |-> quantum]

RoundRobin(processes, quantum) ==
    [name |-> "RoundRobin", processes |-> processes,
     completed_processes |-> <<>>, quantum |-> quantum]

FemtoScheduler(processes) ==
    [name |-> "Femto", processes |-> processes,
     completed_processes |-> <<>>, WINDOW_SIZE |-> WINDOW_SIZE]

\* the objects of a scheduler's process list
Procs(self) == heap[self.processes]

\* the process list taken in the order it was given
procsAsGiven(self) == [j \in DOMAIN Procs(self) |-> j]

\* procs = sorted(self.processes, key=lambda x: x.arrival_time)
procs(self) ==
    StableSort([j \in DOMAIN Procs(self) |-> j],
               [j \in DOMAIN Procs(self) |-> Procs(self)[j].arrival_time])

\* an arrival loop that admits one tick early
ArrivedEarly(arrival_time, t) == arrival_time <= t + 1

\* an arrival loop that admits one tick late
ArrivedLate(arrival_time, t) == arrival_time < t

\* the test of the arrival loop: procs[p_idx].arrival_time <= time
Arrived(arrival_time, t) == arrival_time <= t

\* an arrival loop that puts each newcomer at the head of the queue
RECURSIVE ArrivalAtHead(_, _, _, _, _)
ArrivalAtHead(h, ps, t, q, pi) ==
    IF pi < Len(ps) /\ h[ps[pi + 1]].arrival_time <= t
    THEN ArrivalAtHead(h, ps, t, <<ps[pi + 1]>> \o q, pi + 1)
    ELSE [queue |-> q, p_idx |-> pi]

\* while p_idx < len(procs) and procs[p_idx].arrival_time <= time: queue.append(...)
RECURSIVE Arrival(_, _, _, _, _)
Arrival(h, ps, t, q, pi) ==
    IF pi < Len(ps) /\ Arrived(h[ps[pi + 1]].arrival_time, t)
    THEN Arrival(h, ps, t, Append(q, ps[pi + 1]), pi + 1)
    ELSE [queue |-> q, p_idx |-> pi]

\* while len(self.completed_processes) < len(self.processes)
LoopCondition(self) == Len(self.completed_processes) < Len(Procs(self))

\* an idle iteration that forgets the clock
IdleTickStuck(t) == t

\* an idle iteration that skips a tick
IdleTickTwice(t) == t + 2

\* if not queue: time += 1
IdleTick(t) == t + 1

\* a dispatch that stamps start_time every time
StartEveryDispatch(rec, t) == [rec EXCEPT !.start_time = t]

\* if p.start_time == -1: p.start_time = time
Start(rec, t) ==
    IF rec.start_time = UNSET_START THEN [rec EXCEPT !.start_time = t] ELSE rec

\* a burst transition that forgets to load the next burst
BurstTransitionUnloaded(rec, t) ==
    LET r == [rec EXCEPT !.current_burst_index = @ + 1]
    IN  IF r.current_burst_index < Len(r.bursts) THEN r
        ELSE [r EXCEPT !.completion_time = t]

\* the burst transition every policy repeats once remaining_time is 0:
\* advance to the next burst, or set completion_time
BurstTransition(rec, t) ==
    LET r == [rec EXCEPT !.current_burst_index = @ + 1]
    IN  IF r.current_burst_index < Len(r.bursts)
        THEN [r EXCEPT !.remaining_time = r.bursts[r.current_burst_index + 1]]
        ELSE [r EXCEPT !.completion_time = t]

MoreBursts(rec) == rec.current_burst_index < Len(rec.bursts)

\* a completed list kept newest first
CompleteAtHead(completed, p) == <<p>> \o completed

\* self.completed_processes.append(p)
Complete(completed, p) == Append(completed, p)

Running(name) ==
    /\ cur \in 1..Len(schedulers)
    /\ schedulers[cur].name = name
    /\ LoopCondition(schedulers[cur])

\* the end of an iteration that dispatched p: the new record rec of p, and p
\* requeued (behind the queue q) or completed
\* a requeue that puts the process back at the head of the queue
RequeueAtHead(p, rec, q) ==
    /\ heap' = [heap EXCEPT ![schedulers[cur].processes][p] = rec]
    /\ queue' = <<p>> \o q
    /\ UNCHANGED schedulers

Requeue(p, rec, q) ==
    /\ heap' = [heap EXCEPT ![schedulers[cur].processes][p] = rec]
    /\ queue' = Append(q, p)
    /\ UNCHANGED schedulers

Finish(p, rec, q) ==
    /\ heap' = [heap EXCEPT ![schedulers[cur].processes][p] = rec]
    /\ queue' = q
    /\ schedulers' = [schedulers EXCEPT
           ![cur].completed_processes = Complete(@, p)]

Dispatched == dispatches' = [dispatches EXCEPT ![cur] = @ + 1]

\* FCFS.run, one iteration of the loop
FCFS_run ==
    /\ Running("FCFS")
    /\ LET self == schedulers[cur]
           adm == Arrival(Procs(self), procs(self), time, queue, p_idx)
       IN  /\ p_idx' = adm.p_idx
           /\ IF adm.queue = <<>>
              THEN /\ time' = IdleTick(time)
                   /\ queue' = adm.queue
                   /\ UNCHANGED <<heap, schedulers, dispatches>>
              ELSE LET p == Head(adm.queue)
                       r0 == Start(Procs(self)[p], time)
                       burst == r0.remaining_time
                       t1 == time + burst
                       r1 == BurstTransition([r0 EXCEPT !.remaining_time = 0], t1)
                   IN  /\ time' = t1
                       /\ Dispatched
                       /\ IF MoreBursts(r1)
                          THEN Requeue(p, r1, Tail(adm.queue))
                          ELSE Finish(p, r1, Tail(adm.queue))
    /\ UNCHANGED <<cur, current_p, current_p_runtime, tq, metrics>>

\* a ready queue left in the order it has
SortByRemainingOmitted(h, q) == q

\* a sort by all the work a process has left, its later bursts included
SortByRemainingWork(h, q) ==
    StableSort(q, [j \in DOMAIN h |-> h[j].remaining_time
        + SumSeq(SubSeq(h[j].bursts, h[j].current_burst_index + 2, Len(h[j].bursts)))])

\* queue.sort(key=lambda x: x.remaining_time)
SortByRemaining(h, q) == StableSort(q, [j \in DOMAIN h |-> h[j].remaining_time])

\* SJF.run, one iteration of the loop
SJF_run ==
    /\ Running("SJF")
    /\ LET self == schedulers[cur]
           adm == Arrival(Procs(self), procs(self), time, queue, p_idx)
       IN  /\ p_idx' = adm.p_idx
           /\ IF adm.queue = <<>>
              THEN /\ time' = IdleTick(time)
                   /\ queue' = adm.queue
                   /\ UNCHANGED <<heap, schedulers, dispatches>>
              ELSE LET sorted == SortByRemaining(Procs(self), adm.queue)
                       p == Head(sorted)
                       r0 == Start(Procs(self)[p], time)
                       burst == r0.remaining_time
                       t1 == time + burst
                       r1 == BurstTransition([r0 EXCEPT !.remaining_time = 0], t1)
                   IN  /\ time' = t1
                       /\ Dispatched
                       /\ IF MoreBursts(r1)
                          THEN Requeue(p, r1, Tail(sorted))
                          ELSE Finish(p, r1, Tail(sorted))
    /\ UNCHANGED <<cur, current_p, current_p_runtime, tq, metrics>>

\* a sort that puts the longest remaining time first
SRTFSortLongest(h, q) == StableSort(q, [j \in DOMAIN h |-> 0 - h[j].remaining_time])

\* a sort by all the work a process has left, its later bursts included
SRTFSortWork(h, q) ==
    StableSort(q, [j \in DOMAIN h |-> h[j].remaining_time
        + SumSeq(SubSeq(h[j].bursts, h[j].current_burst_index + 2, Len(h[j].bursts)))])

\* a sort that is not stable: equal keys come out in reverse order
SRTFSortUnstable(h, q) ==
    StableSort([i \in 1..Len(q) |-> q[Len(q) + 1 - i]],
               [j \in DOMAIN h |-> h[j].remaining_time])

\* the key of SRTF's sort: the remaining time of the current burst
SRTFSort(h, q) == StableSort(q, [j \in DOMAIN h |-> h[j].remaining_time])

\* SRTF.run, one iteration of the loop
SRTF_run ==
    /\ Running("SRTF")
    /\ LET self == schedulers[cur]
           adm == Arrival(Procs(self), procs(self), time, queue, p_idx)
           back == current_p # 0 /\ Procs(self)[current_p].remaining_time > 0
           q1 == IF back THEN Append(adm.queue, current_p) ELSE adm.queue
           cp1 == IF back THEN 0 ELSE current_p
       IN  /\ p_idx' = adm.p_idx
           /\ IF q1 = <<>>
              THEN /\ time' = IdleTick(time)
                   /\ queue' = q1
                   /\ current_p' = cp1
                   /\ UNCHANGED <<heap, schedulers, dispatches>>
              ELSE LET sorted == SRTFSort(Procs(self), q1)
                       p == Head(sorted)
                       r0 == Start(Procs(self)[p], time)
                       t1 == time + 1
                       r1 == [r0 EXCEPT !.remaining_time = @ - 1]
                       r2 == BurstTransition(r1, t1)
                   IN  /\ time' = t1
                       /\ Dispatched
                       /\ IF r1.remaining_time = 0
                          THEN /\ current_p' = 0
                               /\ IF MoreBursts(r2)
                                  THEN Requeue(p, r2, Tail(sorted))
                                  ELSE Finish(p, r2, Tail(sorted))
                          ELSE /\ current_p' = p
                               /\ heap' = [heap EXCEPT ![self.processes][p] = r1]
                               /\ queue' = Tail(sorted)
                               /\ UNCHANGED schedulers
    /\ UNCHANGED <<cur, current_p_runtime, tq, metrics>>

\* a sort that takes the larger priority number as the more urgent
SortByPriorityLargest(h, q) == StableSort(q, [j \in DOMAIN h |-> 0 - h[j].priority])

\* queue.sort(key=lambda x: x.priority)
SortByPriority(h, q) == StableSort(q, [j \in DOMAIN h |-> h[j].priority])

\* PriorityRR.run, one iteration of the loop
PriorityRR_run ==
    /\ Running("PriorityRR")
    /\ LET self == schedulers[cur]
           adm == Arrival(Procs(self), procs(self), time, queue, p_idx)
       IN  /\ p_idx' = adm.p_idx
           /\ IF adm.queue = <<>>
              THEN /\ time' = IdleTick(time)
                   /\ queue' = adm.queue
                   /\ UNCHANGED <<heap, schedulers, dispatches, current_p_runtime>>
              ELSE LET sorted == SortByPriority(Procs(self), adm.queue)
                       p == Head(sorted)
                       r0 == Start(Procs(self)[p], time)
                       t1 == time + 1
                       r1 == [r0 EXCEPT !.remaining_time = @ - 1]
                       r2 == BurstTransition(r1, t1)
                       runtime == current_p_runtime + 1
                   IN  /\ time' = t1
                       /\ Dispatched
                       /\ IF r1.remaining_time = 0
                          THEN /\ current_p_runtime' = 0
                               /\ IF MoreBursts(r2)
                                  THEN Requeue(p, r2, Tail(sorted))
                                  ELSE Finish(p, r2, Tail(sorted))
                          ELSE IF runtime >= self.quantum
                               THEN /\ current_p_runtime' = 0
                                    /\ Requeue(p, r1, Tail(sorted))
                               ELSE /\ current_p_runtime' = runtime
                                    /\ heap' = [heap EXCEPT ![self.processes][p] = r1]
                                    /\ queue' = <<p>> \o Tail(sorted)
                                    /\ UNCHANGED schedulers
    /\ UNCHANGED <<cur, current_p, tq, metrics>>

\* the dispatches of a run whose quantum is >= 1 never exceed the ticks of work
MaxDispatches == NumProcs * MaxBursts * MaxBurst

\* RoundRobin.run, one iteration of the loop.  A run that never ends (a
\* quantum <= 0) is followed for MaxDispatches dispatches only.
RoundRobin_run ==
    /\ Running("RoundRobin")
    /\ dispatches[cur] < MaxDispatches
    /\ LET self == schedulers[cur]
           adm == Arrival(Procs(self), procs(self), time, queue, p_idx)
       IN  /\ p_idx' = adm.p_idx
           /\ IF adm.queue = <<>>
              THEN /\ time' = IdleTick(time)
                   /\ queue' = adm.queue
                   /\ UNCHANGED <<heap, schedulers, dispatches>>
              ELSE LET p == Head(adm.queue)
                       r0 == Start(Procs(self)[p], time)
                       run_time == Min(r0.remaining_time, self.quantum)
                       t1 == time + run_time
                       r1 == [r0 EXCEPT !.remaining_time = @ - run_time]
                       r2 == BurstTransition(r1, t1)
                   IN  /\ time' = t1
                       /\ Dispatched
                       /\ IF r1.remaining_time = 0
                          THEN IF MoreBursts(r2)
                               THEN Requeue(p, r2, Tail(adm.queue))
                               ELSE Finish(p, r2, Tail(adm.queue))
                          ELSE Requeue(p, r1, Tail(adm.queue))
    /\ UNCHANGED <<cur, current_p, current_p_runtime, tq, metrics>>

\* ------------------------------------------------------------ Femto-Window
\* Forecasts are fractions; they are kept as integers in units of 1/120, which
\* holds every mean of up to five integers, every last * 1.2 and every median
\* of two of them exactly.
\* statistics.mean of a non-empty list of integers
Mean120(s) == (SumSeq(s) * 120) \div Len(s)

\* all(x < y for x, y in zip(window, window[1:]))
IsIncreasing(w) == \A i \in 1..(Len(w) - 1) : w[i] < w[i + 1]

\* FemtoScheduler.femto_predict, in units of 1/120
femto_predict(rec) ==
    LET h == rec.burst_history
    IN  IF Len(h) < WINDOW_SIZE
        THEN IF h # <<>> THEN Mean120(h) ELSE 5 * 120
        ELSE LET window == SubSeq(h, Len(h) - WINDOW_SIZE + 1, Len(h))
                 avg == Mean120(window)
                 min_v == MinSeq(window)
                 max_v == MaxSeq(window)
                 range_var == max_v - min_v
             IN  IF range_var * 600 < avg THEN avg
                 ELSE IF IsIncreasing(window) THEN window[Len(window)] * 144
                 ELSE max_v * 120

\* statistics.median of a non-empty list
Median(xs) ==
    LET s == SortNums(xs)
        n == Len(s)
    IN  IF n % 2 = 1 THEN s[(n + 1) \div 2]
        ELSE (s[n \div 2] + s[(n \div 2) + 1]) \div 2

\* FemtoScheduler.calculate_system_quantum
calculate_system_quantum(h, ready_queue) ==
    IF ready_queue = <<>> THEN 5
    ELSE LET predictions == [i \in 1..Len(ready_queue) |-> femto_predict(h[ready_queue[i]])]
             median == Median(predictions)
         IN  Max(2, Min(median \div 120, 25))

\* a dispatch that records a history entry only when it finishes the burst
FemtoDispatchLastRun(rec, t, run_time) ==
    LET r0 == Start(rec, t)
    IN  [r0 EXCEPT !.remaining_time = @ - run_time,
                   !.burst_history = IF r0.remaining_time = run_time
                                     THEN Append(@, run_time) ELSE @]

\* what one Femto dispatch does to the dispatched process (before the test of
\* remaining_time): start_time, the run of run_time ticks, the history entry
FemtoDispatch(rec, t, run_time) ==
    LET r0 == Start(rec, t)
    IN  [r0 EXCEPT !.remaining_time = @ - run_time,
                   !.burst_history = Append(@, run_time)]

\* FemtoScheduler.run, one iteration of the loop
Femto_run ==
    /\ Running("Femto")
    /\ LET self == schedulers[cur]
           adm == Arrival(Procs(self), procs(self), time, queue, p_idx)
       IN  /\ p_idx' = adm.p_idx
           /\ IF adm.queue = <<>>
              THEN /\ time' = IdleTick(time)
                   /\ queue' = adm.queue
                   /\ UNCHANGED <<heap, schedulers, dispatches, tq>>
              ELSE LET quantum == calculate_system_quantum(Procs(self), adm.queue)
                       p == Head(adm.queue)
                       run_time == Min(Procs(self)[p].remaining_time, quantum)
                       t1 == time + run_time
                       r1 == FemtoDispatch(Procs(self)[p], time, run_time)
                       r2 == BurstTransition(r1, t1)
                   IN  /\ tq' = quantum
                       /\ time' = t1
                       /\ Dispatched
                       /\ IF r1.remaining_time = 0
                          THEN IF MoreBursts(r2)
                               THEN Requeue(p, r2, Tail(adm.queue))
                               ELSE Finish(p, r2, Tail(adm.queue))
                          ELSE Requeue(p, r1, Tail(adm.queue))
    /\ UNCHANGED <<cur, current_p, current_p_runtime, metrics>>

\* ------------------------------------------------------------------ main.py
\* no copy: every scheduler is handed the objects of the dataset itself
shared(k) == 0

\* copy.deepcopy(dataset), the k-th call: the region of the fresh objects
deepcopy(k) == k

\* the totals calculate_metrics accumulates over the completed processes
TotalTAT(self) ==
    SumSeq([i \in 1..Len(self.completed_processes) |->
        LET p == Procs(self)[self.completed_processes[i]]
        IN  p.completion_time - p.arrival_time])

TotalWT(self) ==
    SumSeq([i \in 1..Len(self.completed_processes) |->
        LET p == Procs(self)[self.completed_processes[i]]
        IN  (p.completion_time - p.arrival_time) - SumSeq(p.bursts)])

TotalRT(self) ==
    SumSeq([i \in 1..Len(self.completed_processes) |->
        LET p == Procs(self)[self.completed_processes[i]]
        IN  p.start_time - p.arrival_time])

\* calculate_metrics: the averages are kept as total and n; reading an
\* attribute the object does not have raises AttributeError
calculate_metrics(self) ==
    IF Len(self.completed_processes) = 0 THEN [empty |-> TRUE]
    ELSE IF "context_switches" \notin DOMAIN self THEN [raised |-> "AttributeError"]
    ELSE [Name |-> self.name,
          n |-> Len(self.completed_processes),
          total_tat |-> TotalTAT(self),
          total_wt |-> TotalWT(self),
          total_rt |-> TotalRT(self),
          Ctx_Switch |-> self.context_switches]

\* res = calculate_metrics(sched), after sched.run() returned
calculate_metrics_call ==
    /\ cur = Len(schedulers)
    /\ ~LoopCondition(schedulers[cur])
    /\ metrics = [called |-> FALSE]
    /\ metrics' = calculate_metrics(schedulers[cur])
    /\ UNCHANGED <<heap, schedulers, cur, time, queue, p_idx, current_p,
                   current_p_runtime, tq, dispatches>>

\* run() returned and run() of the next policy object is entered: its locals
run_next ==
    /\ cur < Len(schedulers)
    /\ ~LoopCondition(schedulers[cur])
    /\ cur' = cur + 1
    /\ time' = 0
    /\ queue' = <<>>
    /\ p_idx' = 0
    /\ current_p' = 0
    /\ current_p_runtime' = 0
    /\ tq' = 0
    /\ UNCHANGED <<heap, schedulers, dispatches, metrics>>

\* ------------------------------------------------------------------ inputs
BurstSeqs == UNION {[1..n -> 1..MaxBurst] : n \in 1..MaxBursts}

Datasets ==
    {[j \in Pids |-> Process(a[j], b[j], pr[j])] :
        a \in [Pids -> 0..MaxArrival], b \in [Pids -> BurstSeqs],
        pr \in [Pids -> 1..MaxPriority]}

\* a policy and its configuration
Configs(quanta) ==
    {[name |-> n, quantum |-> 0] : n \in {"FCFS", "SJF", "SRTF", "Femto"}}
    \cup {[name |-> n, quantum |-> q] : n \in {"PriorityRR", "RoundRobin"}, q \in quanta}

\* the policy object of a configuration, on the k-th copy of the dataset
Construct(cfg, k) ==
    CASE cfg.name = "FCFS" -> FCFS(deepcopy(k))
      [] cfg.name = "SJF" -> SJF(deepcopy(k))
      [] cfg.name = "SRTF" -> SRTF(deepcopy(k))
      [] cfg.name = "PriorityRR" -> PriorityRR(deepcopy(k), cfg.quantum)
      [] cfg.name = "RoundRobin" -> RoundRobin(deepcopy(k), cfg.quantum)
      [] cfg.name = "Femto" -> FemtoScheduler(deepcopy(k))

\* the state after the schedulers list is built and the first run() is entered
InitWith(datasets, lists) ==
    \E d \in datasets, l \in lists :
        /\ heap = [r \in 0..Len(l) |-> d]
        /\ schedulers = [k \in 1..Len(l) |-> Construct(l[k], k)]
        /\ cur = 1
        /\ time = 0
        /\ queue = <<>>
        /\ p_idx = 0
        /\ current_p = 0
        /\ current_p_runtime = 0
        /\ tq = 0
        /\ dispatches = [k \in 1..Len(l) |-> 0]
        /\ metrics = [called |-> FALSE]

\* one policy object with a quantum >= 1, run and measured
OneScheduler == {<<c>> : c \in Configs(1..MaxQuantum)}

Init == InitWith(Datasets, OneScheduler)

Next ==
    \/ FCFS_run
    \/ SJF_run
    \/ SRTF_run
    \/ PriorityRR_run
    \/ RoundRobin_run
    \/ Femto_run
    \/ calculate_metrics_call

Spec == Init /\ [][Next]_vars

\* ENABLED <<Next>>_vars, written out: calculate_metrics is still to be
\* called, or the loop condition holds and the iteration changes the state (a
\* dispatch is counted in dispatches, an idle iteration moves time)
CanStep ==
    \/ ~LoopCondition(schedulers[cur]) /\ metrics = [called |-> FALSE]
    \/ /\ LoopCondition(schedulers[cur])
       /\ \/ Arrival(Procs(schedulers[cur]), procs(schedulers[cur]), time, queue, p_idx).queue # <<>>
          \/ IdleTick(time) # time

\* the program is sequential, it always takes its next step: WF_vars(Next),
\* with its enabling condition written as CanStep
FairSpec == Spec /\ ([]<>(~CanStep) \/ []<><<Next>>_vars)

\* ---------------------------------------------- runs with a quantum <= 0
BadQuanta == {-1, 0}

QuantumSchedulers ==
    {<<[name |-> n, quantum |-> q]>> : n \in {"PriorityRR", "RoundRobin"}, q \in BadQuanta}

InitCfg == InitWith(Datasets, QuantumSchedulers)

NextCfg ==
    \/ PriorityRR_run
    \/ RoundRobin_run

SpecCfg == InitCfg /\ [][NextCfg]_vars

\* ------------------------------------- the same policy run twice, in a list
\* the policy main.py lists after this one
NextInMain(cfg) ==
    CASE cfg.name = "FCFS" -> [name |-> "SJF", quantum |-> 0]
      [] cfg.name = "SJF" -> [name |-> "SRTF", quantum |-> 0]
      [] cfg.name = "SRTF" -> [name |-> "PriorityRR", quantum |-> 1]
      [] cfg.name = "PriorityRR" -> [name |-> "RoundRobin", quantum |-> 1]
      [] cfg.name = "RoundRobin" -> [name |-> "Femto", quantum |-> 0]
      [] cfg.name = "Femto" -> [name |-> "FCFS", quantum |-> 0]

\* a policy, the next policy, and the first policy again, each on its own copy
Repeated == {<<c, NextInMain(c), c>> : c \in Configs(1..MaxQuantum)}

InitSeq == InitWith(Datasets, Repeated)

NextSeq ==
    \/ FCFS_run
    \/ SJF_run
    \/ SRTF_run
    \/ PriorityRR_run
    \/ RoundRobin_run
    \/ Femto_run
    \/ run_next

SpecSeq == InitSeq /\ [][NextSeq]_vars

\* ------------------------------------- SRTF, FCFS and RoundRobin compared
Compared ==
    {<<[name |-> "SRTF", quantum |-> 0], [name |-> "FCFS", quantum |-> 0],
       [name |-> "RoundRobin", quantum |-> q]>> : q \in 1..MaxQuantum}

InitCmp == InitWith(Datasets, Compared)

NextCmp ==
    \/ SRTF_run
    \/ FCFS_run
    \/ RoundRobin_run
    \/ run_next

SpecCmp == InitCmp /\ [][NextCmp]_vars

\* --------------------------------- workloads of one process and of several
\* the process lists of n processes over the given arrival times, burst
\* lengths (up to MaxBursts bursts each) and priorities
Workloads(n, arrivals, lengths, priorities) ==
    LET seqs == UNION {[1..k -> lengths] : k \in 1..MaxBursts}
    IN  {[j \in 1..n |-> Process(a[j], b[j], pr[j])] :
            a \in [1..n -> arrivals], b \in [1..n -> seqs],
            pr \in [1..n -> priorities]}

\* burst lengths that include a burst longer than RoundRobin's quantum of
\* main.py, and that quantum
LongLengths == (1..MaxBurst) \cup {10}
MainQuanta == {5}

\* FCFS, SJF, RoundRobin(quantum=5) and Femto on one process and on two
SmallWorkloads ==
    Workloads(1, 0..MaxArrival, LongLengths, {1})
    \cup Workloads(NumProcs, 0..MaxArrival, LongLengths, {1})

Baseline ==
    {<<[name |-> n, quantum |-> 0]>> : n \in {"FCFS", "SJF", "Femto"}}
    \cup {<<[name |-> "RoundRobin", quantum |-> q]>> : q \in MainQuanta}

InitSmall == InitWith(SmallWorkloads, Baseline)

NextSmall ==
    \/ FCFS_run
    \/ SJF_run
    \/ RoundRobin_run
    \/ Femto_run

SpecSmall == InitSmall /\ [][NextSmall]_vars

\* SJF, SRTF and PriorityRR on one process more, with short bursts
CrowdProcs == 3
CrowdArrival == 1
CrowdBurst == 2

CrowdWorkloads ==
    Workloads(CrowdProcs, 0..CrowdArrival, 1..CrowdBurst, 1..MaxPriority)

Crowd ==
    {<<[name |-> "SJF", quantum |-> 0]>>}
    \cup {<<[name |-> "PriorityRR", quantum |-> q]>> : q \in 1..MaxQuantum}

InitCrowd == InitWith(CrowdWorkloads, Crowd)

NextCrowd ==
    \/ SJF_run
    \/ PriorityRR_run

SpecCrowd == InitCrowd /\ [][NextCrowd]_vars

\* RoundRobin on the workloads of one process more
RingWorkloads == Workloads(CrowdProcs, 0..CrowdArrival, 1..CrowdBurst, {1})

Ring == {<<[name |-> "RoundRobin", quantum |-> q]>> : q \in 1..MaxQuantum}

InitRing == InitWith(RingWorkloads, Ring)

NextRing == RoundRobin_run

SpecRing == InitRing /\ [][NextRing]_vars

\* ------------------------------------------------------------------ claims
Self == schedulers[cur]
Terminated == ~LoopCondition(Self)
Completed(self) == {self.completed_processes[i] : i \in 1..Len(self.completed_processes)}

\* C1: under each of the six policies, with arrival times >= 0, non-empty
\* sequences of positive bursts and a quantum >= 1, run() eventually
\* terminates with every input process in completed_processes exactly once.
C1_RunTerminates ==
    <>(/\ Terminated
       /\ Len(Self.completed_processes) = NumProcs
       /\ Completed(Self) = Pids)

\* a run that idled before its first dispatch and requeued a process has ended
C1_Witness ==
    /\ Terminated
    /\ Completed(Self) = Pids
    /\ \A j \in Pids : Procs(Self)[j].arrival_time > 0
    /\ \E j \in Pids : Len(Procs(Self)[j].bursts) > 1

\* C2: every completed process has completion_time > arrival_time and
\* start_time >= arrival_time, under every policy.
C2_CompletionAfterArrival ==
    \A j \in Completed(Self) :
        /\ Procs(Self)[j].completion_time > Procs(Self)[j].arrival_time
        /\ Procs(Self)[j].start_time >= Procs(Self)[j].arrival_time

\* a process that arrived after time 0 and waited for the CPU has completed
C2_Witness ==
    \E j \in Completed(Self) :
        /\ Procs(Self)[j].arrival_time > 0
        /\ Procs(Self)[j].start_time > Procs(Self)[j].arrival_time

\* C3: under every policy, once a process has completed a burst,
\* current_burst_index = len(burst_history); every completed process has
\* len(burst_history) = len(bursts).
C3_HistoryPerBurst ==
    \A j \in Pids :
        LET p == Procs(Self)[j]
        IN  /\ p.current_burst_index >= 1 => p.current_burst_index = Len(p.burst_history)
            /\ j \in Completed(Self) => Len(p.burst_history) = Len(p.bursts)

\* C4: the quantum Femto computes for a dispatch cycle lies in [5, 40].
C4_QuantumInRange ==
    (Self.name = "Femto" /\ dispatches[cur] > 0) => tq \in 5..40

\* C5: under Femto, every completed process has
\* sum(burst_history) = sum(bursts).
C5_HistorySum ==
    Self.name = "Femto" =>
        \A j \in Completed(Self) :
            SumSeq(Procs(Self)[j].burst_history) = SumSeq(Procs(Self)[j].bursts)

\* a process whose burst was cut by the quantum has completed under Femto
C5_Witness ==
    /\ Self.name = "Femto"
    /\ \E j \in Completed(Self) :
           Len(Procs(Self)[j].burst_history) > Len(Procs(Self)[j].bursts)

\* C6: completed_processes is ordered by completion_time.
C6_OrderedByCompletion ==
    LET c == Self.completed_processes
    IN  \A a, b \in 1..Len(c) :
            a < b => Procs(Self)[c[a]].completion_time <= Procs(Self)[c[b]].completion_time

\* two processes have completed at different times, the later input first
C6_Witness ==
    LET c == Self.completed_processes
    IN  /\ Len(c) = NumProcs
        /\ c[1] > c[2]
        /\ Procs(Self)[c[1]].completion_time < Procs(Self)[c[2]].completion_time

\* C8: after run() of FCFS, RoundRobin, Femto or PriorityRR the policy object
\* has an integer context_switches equal to the number of dispatches.
C8_ContextSwitchCount ==
    (Terminated /\ Self.name \in {"FCFS", "RoundRobin", "Femto", "PriorityRR"}) =>
        /\ "context_switches" \in DOMAIN Self
        /\ Self.context_switches = dispatches[cur]

C9_NoRunWithBadQuantum ==
    \A k \in 1..Len(schedulers) :
        ("quantum" \in DOMAIN schedulers[k] /\ dispatches[k] > 0) =>
            schedulers[k].quantum >= 1

SingleBursts == \A j \in Pids : Len(heap[0][j].bursts) = 1

IsShortBehindLong(h) ==
    /\ Len(h) = 2
    /\ h[1].arrival_time = 0 /\ h[1].bursts = <<10>>
    /\ h[2].arrival_time = 0 /\ h[2].bursts = <<2>>

\* C11: on P0 (arrival 0, bursts [10]), P1 (arrival 0, bursts [2]) SJF.run
\* completes P1 at 2 and P0 at 12, and FCFS.run completes P0 at 10 and P1 at 12.
C11_ShortBehindLong ==
    (Terminated /\ IsShortBehindLong(Procs(Self))) =>
        /\ Self.name = "SJF" =>
              /\ Procs(Self)[2].completion_time = 2
              /\ Procs(Self)[1].completion_time = 12
        /\ Self.name = "FCFS" =>
              /\ Procs(Self)[1].completion_time = 10
              /\ Procs(Self)[2].completion_time = 12

\* SJF has run the workload of C11 to its end
C11_Witness ==
    /\ Terminated
    /\ IsShortBehindLong(Procs(Self))
    /\ Self.name = "SJF"
    /\ Self.completed_processes = <<2, 1>>

\* C12: a single process with arrival a and bursts B gets start_time = a and
\* completion_time = a + sum(B) (so a waiting time of 0) under FCFS, RoundRobin
\* and Femto alike; for arrival 0, bursts [10] and RoundRobin(quantum=5) these
\* are start_time 0 and completion_time 10.
C12_SingleProcess ==
    (/\ Terminated
     /\ Len(Procs(Self)) = 1
     /\ Self.name \in {"FCFS", "RoundRobin", "Femto"}) =>
        LET p == Procs(Self)[1]
        IN  /\ p.start_time = p.arrival_time
            /\ p.completion_time = p.arrival_time + SumSeq(p.bursts)
            /\ TotalWT(Self) = 0

\* RoundRobin(quantum=5) has run the one process (arrival 0, bursts [10])
C12_Witness ==
    /\ Terminated
    /\ Len(Procs(Self)) = 1
    /\ Self.name = "RoundRobin"
    /\ Self.quantum = 5
    /\ Procs(Self)[1].arrival_time = 0
    /\ Procs(Self)[1].bursts = <<10>>
    /\ Procs(Self)[1].completion_time = 10
    /\ dispatches[cur] = 2

\* C13: under FCFS first dispatches follow arrival order: of two processes
\* with distinct arrival times the later one is dispatched only after the
\* earlier one, at a later tick, also when the earlier one is requeued for
\* further bursts.
C13_FCFSStartsInArrivalOrder ==
    Self.name = "FCFS" =>
        \A a, b \in DOMAIN Procs(Self) :
            (/\ Procs(Self)[a].arrival_time < Procs(Self)[b].arrival_time
             /\ Procs(Self)[b].start_time # UNSET_START) =>
                /\ Procs(Self)[a].start_time # UNSET_START
                /\ Procs(Self)[a].start_time < Procs(Self)[b].start_time

\* the process given second arrived first and was requeued for a second
\* burst, and the other one, which arrived meanwhile, was dispatched after it
C13_Witness ==
    /\ Self.name = "FCFS"
    /\ Procs(Self)[2].arrival_time < Procs(Self)[1].arrival_time
    /\ Len(Procs(Self)[2].bursts) > 1
    /\ Procs(Self)[1].start_time > Procs(Self)[1].arrival_time
    /\ Procs(Self)[1].start_time = Procs(Self)[2].completion_time

\* C14: under every policy start_time is written once, at the first dispatch
\* and to its tick, and never changes afterwards; completion_time keeps its
\* initial value until the step that appends the process to
\* completed_processes, is set to the current time in that step and never
\* changes afterwards, so no completed process carries the initial value.
C14_WrittenOnce ==
    [][\A j \in DOMAIN Procs(Self) :
        LET old == heap[Self.processes][j]
            new == heap'[Self.processes][j]
            wasDone == j \in Completed(Self)
            isDone == j \in Completed(schedulers'[cur])
        IN  /\ old.start_time # UNSET_START => new.start_time = old.start_time
            /\ (old.start_time = UNSET_START /\ new # old) => new.start_time = time
            /\ (old.start_time = UNSET_START /\ new = old) => ~isDone
            /\ ~wasDone => old.completion_time = UNSET_COMPLETION
            /\ (~wasDone /\ ~isDone) => new.completion_time = UNSET_COMPLETION
            /\ (~wasDone /\ isDone) =>
                  /\ new.completion_time = time'
                  /\ new.completion_time # UNSET_COMPLETION
            /\ wasDone =>
                  /\ isDone
                  /\ new.completion_time = old.completion_time
                  /\ old.completion_time # UNSET_COMPLETION]_vars

\* a process of several bursts that waited between its dispatches has
\* completed, while another one has started and is still unfinished
C14_Witness ==
    \E j \in Completed(Self), k \in DOMAIN Procs(Self) :
        /\ Procs(Self)[j].completion_time > Procs(Self)[j].start_time + SumSeq(Procs(Self)[j].bursts)
        /\ Len(Procs(Self)[j].bursts) > 1
        /\ Procs(Self)[k].start_time # UNSET_START
        /\ k \notin Completed(Self)

\* C15: under Femto burst_history has one entry per completed burst, the full
\* time spent in it, appended by the dispatch that finishes the burst; a
\* dispatch that leaves the burst unfinished appends nothing and adds to the
\* accumulated time of the current burst, which is 0 at every burst boundary.
C15_HistoryOfCompletedBursts ==
    Self.name = "Femto" =>
        \A j \in DOMAIN Procs(Self) :
            LET p == Procs(Self)[j]
            IN  /\ p.burst_history = SubSeq(p.bursts, 1, p.current_burst_index)
                /\ p.current_burst_accumulated =
                       IF MoreBursts(p)
                       THEN p.bursts[p.current_burst_index + 1] - p.remaining_time
                       ELSE 0

\* the forecast rule of section 4.7 for a history and an accumulated time, in
\* units of 1/120
ForecastRule(history, accumulated) ==
    IF history = <<>> THEN Max(5, accumulated + 5) * 120
    ELSE LET window == SubSeq(history, Max(1, Len(history) - 4), Len(history))
             mean == Mean120(window)
             base == IF (MaxSeq(window) - MinSeq(window)) * 600 < mean THEN mean
                     ELSE IF IsIncreasing(window) THEN window[Len(window)] * 144
                     ELSE MaxSeq(window) * 120
         IN  Max(base, (accumulated + 2) * 120)

\* C16: the forecast femto_predict computes for a ready process is the
\* forecast rule applied to its burst_history and accumulated time:
\* max(5, accumulated + 5) without history, else mean, last * 1.2 or max over
\* the last min(5, len) entries, floored at accumulated + 2.
C16_ForecastFollowsRule ==
    Self.name = "Femto" =>
        \A i \in 1..Len(queue) :
            LET p == Procs(Self)[queue[i]]
            IN  femto_predict(p) = ForecastRule(p.burst_history, p.current_burst_accumulated)

\* ------------------------------------------------ the steps of a run loop
\* the step is an iteration that dispatched a process
IsDispatch == dispatches'[cur] = dispatches[cur] + 1

\* the process the step dispatched: the one whose record it changed
Ran(j) == heap'[Self.processes][j] # heap[Self.processes][j]

\* the processes that have arrived and are not completed
Ready == {j \in DOMAIN Procs(Self) :
            Procs(Self)[j].arrival_time <= time /\ j \notin Completed(Self)}

\* the ready queue the iteration selects from, after its arrival loop
Admitted == Arrival(Procs(Self), procs(Self), time, queue, p_idx).queue

\* j stands before k in the sequence q
Before(q, j, k) ==
    \E a, b \in 1..Len(q) : a < b /\ q[a] = j /\ q[b] = k

\* the step left the current burst of j unfinished and reset the run counter
Rotated(j) ==
    /\ heap'[Self.processes][j].current_burst_index = Procs(Self)[j].current_burst_index
    /\ current_p_runtime' = 0

\* C17: under Priority+RR a process is rotated to the tail only when it has
\* itself run quantum consecutive ticks: the count that reaches the quantum
\* in the rotating step was run up by the rotated process (the one kept at the
\* head of the queue), never by a process it preempted.
C17_CounterPerProcess ==
    [][(Self.name = "PriorityRR" /\ IsDispatch) =>
        \A j \in DOMAIN Procs(Self) :
            (Ran(j) /\ Rotated(j)) =>
                /\ current_p_runtime + 1 = Self.quantum
                /\ current_p_runtime > 0 => Head(queue) = j]_vars

\* the selection of Priority+RR: the dispatched process has the lowest priority
\* number of the ready set and, among equals, the first place in the ready queue
SelectsByPriority(j) ==
    /\ \A k \in Ready : Procs(Self)[j].priority <= Procs(Self)[k].priority
    /\ \A k \in Ready \ {j} :
           Procs(Self)[k].priority = Procs(Self)[j].priority => Before(Admitted, j, k)

\* j arrives at this tick while a process of a strictly lower priority is in
\* the middle of its quantum (it ran the last tick and was kept at the head)
ArrivesOnLowerPriority(j) ==
    /\ Procs(Self)[j].arrival_time = time
    /\ current_p_runtime > 0
    /\ Procs(Self)[Head(queue)].priority > Procs(Self)[j].priority

\* a process arriving at the same tick as j that the selection prefers to j
ArrivesAheadOf(j) ==
    {k \in Ready \ {j} :
        /\ Procs(Self)[k].arrival_time = time
        /\ \/ Procs(Self)[k].priority < Procs(Self)[j].priority
           \/ /\ Procs(Self)[k].priority = Procs(Self)[j].priority
              /\ Before(Admitted, k, j)}

\* C18: under Priority+RR every one-tick dispatch selects the lowest priority
\* number of the ready set, FIFO among equal priorities; hence a process of a
\* strictly higher priority that arrives while a lower-priority one is running
\* is dispatched at the tick of its arrival.
C18_PreemptsAtArrival ==
    [][(Self.name = "PriorityRR" /\ IsDispatch) =>
        \A j \in DOMAIN Procs(Self) :
            /\ Ran(j) => (SelectsByPriority(j) /\ time' = time + 1)
            /\ ArrivesOnLowerPriority(j) => Ran(j)]_vars

\* C18, amended: under Priority+RR every one-tick dispatch selects the lowest
\* priority number of the ready set, in ready-queue order among equal
\* priorities; hence a process of a strictly higher priority that arrives
\* while a lower-priority one is running is dispatched at the tick of its
\* arrival unless a process arriving at the same tick has a higher priority,
\* or the same priority and an earlier place in the process list.
C18_PreemptsAtArrivalIfFirst ==
    [][(Self.name = "PriorityRR" /\ IsDispatch) =>
        \A j \in DOMAIN Procs(Self) :
            /\ Ran(j) => (SelectsByPriority(j) /\ time' = time + 1)
            /\ (ArrivesOnLowerPriority(j) /\ ArrivesAheadOf(j) = {}) => Ran(j)]_vars

\* a process was dispatched at the tick of its arrival, after a process of a
\* lower priority that is still unfinished, while a third one of its own
\* priority that arrived with it waited
C18_Witness ==
    /\ Self.name = "PriorityRR"
    /\ \E j, k, l \in DOMAIN Procs(Self) :
           /\ Procs(Self)[j].start_time = Procs(Self)[j].arrival_time
           /\ Procs(Self)[j].arrival_time > 0
           /\ Procs(Self)[k].priority > Procs(Self)[j].priority
           /\ Procs(Self)[k].start_time # UNSET_START
           /\ Procs(Self)[k].start_time < Procs(Self)[j].start_time
           /\ k \notin Completed(Self)
           /\ l # j
           /\ Procs(Self)[l].priority = Procs(Self)[j].priority
           /\ Procs(Self)[l].arrival_time = Procs(Self)[j].arrival_time
           /\ Procs(Self)[l].start_time > Procs(Self)[j].start_time

\* the selection of SJF: the dispatched process has the smallest remaining
\* time of the current burst in the ready set, and its whole burst is run in
\* the one step, whatever arrives meanwhile
SelectsShortest(j) ==
    /\ \A k \in Ready : Procs(Self)[j].remaining_time <= Procs(Self)[k].remaining_time
    /\ time' = time + Procs(Self)[j].remaining_time
    /\ heap'[Self.processes][j].current_burst_index = Procs(Self)[j].current_burst_index + 1

\* the ready processes that tie with j on the remaining time
Ties(j) ==
    {k \in Ready \ {j} : Procs(Self)[k].remaining_time = Procs(Self)[j].remaining_time}

\* C19: under SJF every dispatch selects the smallest remaining time of the
\* current burst among the ready processes, ties go to the process with the
\* earlier arrival_time, and the dispatched burst runs to its end unpreempted.
C19_ShortestFirstTiesByArrival ==
    [][(Self.name = "SJF" /\ IsDispatch) =>
        \A j \in DOMAIN Procs(Self) :
            Ran(j) =>
                /\ SelectsShortest(j)
                /\ \A k \in Ties(j) :
                       Procs(Self)[j].arrival_time <= Procs(Self)[k].arrival_time]_vars

\* C19, amended: under SJF every dispatch selects the smallest remaining time
\* of the current burst among the ready processes, ties go to the process that
\* stands first in the ready queue (the order of admission and requeue, in
\* which a requeued process stands behind later arrivals admitted before its
\* requeue), and the dispatched burst runs to its end unpreempted.
C19_ShortestFirstTiesByQueue ==
    [][(Self.name = "SJF" /\ IsDispatch) =>
        \A j \in DOMAIN Procs(Self) :
            Ran(j) =>
                /\ SelectsShortest(j)
                /\ \A k \in Ties(j) : Before(Admitted, j, k)]_vars

\* a process was requeued for a second burst behind a process that arrived
\* later, tied with it on the remaining time, and the later arrival went first
C19_Witness ==
    /\ Self.name = "SJF"
    /\ \E j, k \in DOMAIN Procs(Self) :
           /\ Procs(Self)[j].arrival_time < Procs(Self)[k].arrival_time
           /\ Len(Procs(Self)[j].bursts) = 2
           /\ Procs(Self)[j].bursts[2] = Procs(Self)[k].bursts[1]
           /\ Procs(Self)[j].current_burst_index = 1
           /\ Procs(Self)[j].remaining_time = Procs(Self)[j].bursts[2]
           /\ Procs(Self)[k].start_time >= Procs(Self)[j].start_time + Procs(Self)[j].bursts[1]
           /\ Procs(Self)[k].arrival_time < Procs(Self)[j].start_time + Procs(Self)[j].bursts[1]

\* the step ran exactly one tick of j and of nothing else
RanOneTick(j) ==
    LET old == Procs(Self)[j]
        new == heap'[Self.processes][j]
    IN  /\ time' = time + 1
        /\ \/ /\ old.remaining_time > 1
              /\ new.current_burst_index = old.current_burst_index
              /\ new.remaining_time = old.remaining_time - 1
           \/ /\ old.remaining_time = 1
              /\ new.current_burst_index = old.current_burst_index + 1
        /\ \A k \in DOMAIN Procs(Self) \ {j} : ~Ran(k)

\* C20: under SRTF the selection is made anew at every tick: the process
\* executed during tick t has the smallest remaining time of the current burst
\* among all processes that have arrived and are unfinished at t, the one that
\* ran during tick t-1 included, and exactly one tick of it is executed.
C20_ShortestRemainingEveryTick ==
    [][(Self.name = "SRTF" /\ LoopCondition(Self)) =>
        /\ time' = time + 1
        /\ Ready # {} => IsDispatch
        /\ IsDispatch =>
              \E j \in Ready :
                  /\ Ran(j)
                  /\ RanOneTick(j)
                  /\ \A k \in Ready :
                         Procs(Self)[j].remaining_time <= Procs(Self)[k].remaining_time]_vars

\* a process was preempted in the middle of its first burst by a later
\* arrival with a shorter burst, which has started
C20_Witness ==
    /\ Self.name = "SRTF"
    /\ \E j, k \in DOMAIN Procs(Self) :
           /\ Procs(Self)[j].start_time # UNSET_START
           /\ Procs(Self)[j].current_burst_index = 0
           /\ Procs(Self)[j].remaining_time < Procs(Self)[j].bursts[1]
           /\ Procs(Self)[k].arrival_time > Procs(Self)[j].start_time
           /\ Procs(Self)[k].start_time = Procs(Self)[k].arrival_time

\* C21: under RoundRobin with a quantum q >= 1 every dispatch takes the head
\* of the ready queue as it stands and runs min(remaining_time, q) ticks of it,
\* never more than q; an unfinished burst sends the process to the tail, and
\* every other process of the ready queue moves up one place, so each of them
\* is dispatched once before the process runs again.
C21_RoundRobinTurns ==
    [][(Self.name = "RoundRobin" /\ IsDispatch) =>
        LET j == Head(Admitted)
            old == Procs(Self)[j]
            new == heap'[Self.processes][j]
        IN  /\ SubSeq(Admitted, 1, Len(queue)) = queue
            /\ Ran(j)
            /\ \A k \in DOMAIN Procs(Self) \ {j} : ~Ran(k)
            /\ time' - time = Min(old.remaining_time, Self.quantum)
            /\ time' - time \in 1..Self.quantum
            /\ old.remaining_time > Self.quantum =>
                  /\ new.current_burst_index = old.current_burst_index
                  /\ new.remaining_time = old.remaining_time - Self.quantum
                  /\ queue' = Append(Tail(Admitted), j)
            /\ \A i \in 2..Len(Admitted) : queue'[i - 1] = Admitted[i]]_vars

\* a burst of two ticks was run in two dispatches of one tick, and the two
\* other processes, ready at the first of them, were dispatched in between
C21_Witness ==
    /\ Self.name = "RoundRobin"
    /\ Self.quantum = 1
    /\ \E j, k, l \in DOMAIN Procs(Self) :
           /\ k # l
           /\ Procs(Self)[j].bursts = <<2>>
           /\ Procs(Self)[j].completion_time = Procs(Self)[j].start_time + 4
           /\ Procs(Self)[k].arrival_time <= Procs(Self)[j].start_time
           /\ Procs(Self)[l].arrival_time <= Procs(Self)[j].start_time
           /\ Procs(Self)[k].start_time = Procs(Self)[j].start_time + 1
           /\ Procs(Self)[l].start_time = Procs(Self)[j].start_time + 2

\* the ready set a dispatch decision is made on: the queue after the arrival
\* loop and, under SRTF, after the return of the process in service
DecisionQueue ==
    IF /\ Self.name = "SRTF"
       /\ current_p # 0
       /\ Procs(Self)[current_p].remaining_time > 0
    THEN Append(Admitted, current_p)
    ELSE Admitted

\* the number of places of the sequence q that hold j
Places(q, j) == Cardinality({i \in 1..Len(q) : q[i] = j})

\* C22: under every policy, at every dispatch decision each arrived,
\* unfinished process is in the ready set exactly once, with
\* current_burst_index < len(bursts) and 0 < remaining_time <=
\* bursts[current_burst_index]; a remaining_time of 0 does not outlive the
\* iteration that produced it; a completed process is not in the ready set and
\* is not dispatched again (it stays at its last burst with nothing remaining).
C22_ReadySetInvariant ==
    \A j \in DOMAIN Procs(Self) :
        LET p == Procs(Self)[j]
        IN  /\ j \in Ready =>
                  /\ Places(DecisionQueue, j) = 1
                  /\ p.current_burst_index < Len(p.bursts)
                  /\ p.remaining_time > 0
                  /\ p.remaining_time <= p.bursts[p.current_burst_index + 1]
            /\ j \notin Ready => Places(DecisionQueue, j) = 0
            /\ p.remaining_time = 0 => j \in Completed(Self)
            /\ j \in Completed(Self) =>
                  /\ p.current_burst_index = Len(p.bursts)
                  /\ p.remaining_time = 0

\* one process has completed, the other is ready in the middle of its second
\* burst, after a first burst that ended in the middle of the run
C22_Witness ==
    \E j \in Completed(Self), k \in Ready :
        /\ Procs(Self)[k].current_burst_index = 1
        /\ Procs(Self)[k].remaining_time < Procs(Self)[k].bursts[2]
        /\ Procs(Self)[j].completion_time < time

\* the waiting time calculate_metrics derives for a completed process
WaitingTime(p) == (p.completion_time - p.arrival_time) - SumSeq(p.bursts)

\* all the burst lengths of the workload, summed
TotalBursts(h) == SumSeq([j \in DOMAIN h |-> SumSeq(h[j].bursts)])

\* the largest completion_time of the processes
MaxCompletion(h) == MaxSeq([j \in DOMAIN h |-> h[j].completion_time])

\* what work conservation leaves in the state: no completed process has a
\* negative waiting time, and a run of a workload that arrived at 0 has ended
\* at the sum of its bursts
Conserved ==
    /\ \A j \in Completed(Self) : WaitingTime(Procs(Self)[j]) >= 0
    /\ (Terminated /\ \A j \in DOMAIN Procs(Self) : Procs(Self)[j].arrival_time = 0) =>
           MaxCompletion(Procs(Self)) = TotalBursts(Procs(Self))

\* C23: under every policy time advances without a dispatch (an idle tick)
\* only when no arrived process is unfinished; so every completed process has
\* a waiting time >= 0, and when all processes arrive at 0 the largest
\* completion_time is the sum of all burst lengths.
C23_WorkConserving ==
    [][LoopCondition(Self) =>
        /\ (time' # time /\ ~IsDispatch) => Ready = {}
        /\ Ready # {} => IsDispatch
        /\ Conserved']_vars

\* a run idled before its first arrival, then served two processes of two
\* bursts each without a gap, and one of them waited
C23_Witness ==
    /\ LET h == Procs(Self)
       IN  /\ Terminated
           /\ \A j \in DOMAIN h : h[j].arrival_time > 0 /\ Len(h[j].bursts) = 2
           /\ \E j \in DOMAIN h : h[j].start_time = h[j].arrival_time
           /\ \E j \in DOMAIN h : WaitingTime(h[j]) > 0
           /\ MaxCompletion(h) = MinSeq([j \in DOMAIN h |-> h[j].arrival_time]) + TotalBursts(h)

\* the processes that arrive while the step runs its dispatch, after the
\* time the dispatch began and up to the time it ended
ArrivedMeanwhile ==
    {k \in DOMAIN Procs(Self) :
        time < Procs(Self)[k].arrival_time /\ Procs(Self)[k].arrival_time <= time'}

\* C24: under FCFS, RoundRobin and Femto a process requeued at the end of a
\* dispatch that ran from s to t (cut by the quantum, or back for its next
\* burst) stands in the ready queue of the next iteration ahead of every
\* process that arrived in (s, t], none of which has been dispatched; the
\* queue being served from its head, it runs again before they first run.
C24_RequeueBeforeAdmission ==
    [][(Self.name \in {"FCFS", "RoundRobin", "Femto"} /\ IsDispatch) =>
        LET j == Head(Admitted)
        IN  /\ Ran(j)
            /\ j \notin Completed(schedulers'[cur]) =>
                  \A k \in ArrivedMeanwhile :
                      /\ Before(Admitted', j, k)
                      /\ heap'[Self.processes][k].start_time = UNSET_START]_vars

\* a process cut by the quantum in its second burst was dispatched again
\* while a process that arrived during its first burst had not started
C24_Witness ==
    /\ Self.name \in {"RoundRobin", "Femto"}
    /\ \E j, k \in DOMAIN Procs(Self) :
           /\ Procs(Self)[j].start_time # UNSET_START
           /\ Procs(Self)[j].start_time < Procs(Self)[k].arrival_time
           /\ Procs(Self)[k].arrival_time <= Procs(Self)[j].start_time + Procs(Self)[j].bursts[1]
           /\ Len(Procs(Self)[j].bursts) = 2
           /\ Procs(Self)[j].current_burst_index = 1
           /\ Procs(Self)[j].remaining_time < Procs(Self)[j].bursts[2]
           /\ Procs(Self)[k].start_time = UNSET_START
           /\ queue = <<k, j>>

\* the ready processes, other than the one in service, whose remaining time
\* equals that of the process in service
TiesWithCurrent ==
    {k \in Ready \ {current_p} :
        Procs(Self)[k].remaining_time = Procs(Self)[current_p].remaining_time}

\* C25: under SRTF, when the process that ran the previous tick and another
\* ready process have the same remaining time of the current burst, the next
\* tick goes to another process, not to the one that was running: a running
\* process is preempted by an equal remaining time too.
C25_TieGoesToTheOther ==
    [][(/\ Self.name = "SRTF"
        /\ IsDispatch
        /\ current_p # 0
        /\ TiesWithCurrent # {}) =>
            /\ ~Ran(current_p)
            /\ \E k \in Ready \ {current_p} :
                   /\ Ran(k)
                   /\ Procs(Self)[k].remaining_time <= Procs(Self)[current_p].remaining_time]_vars

\* a process in the middle of its first burst lost the CPU to a newcomer
\* whose burst was as long as what it had left
C25_Witness ==
    /\ Self.name = "SRTF"
    /\ current_p # 0
    /\ \E j \in DOMAIN Procs(Self) :
           LET k == current_p
           IN  /\ j # k
               /\ Procs(Self)[j].current_burst_index = 0
               /\ Procs(Self)[j].start_time = time - 2
               /\ Procs(Self)[j].remaining_time = Procs(Self)[j].bursts[1] - 1
               /\ Procs(Self)[k].current_burst_index = 0
               /\ Procs(Self)[k].start_time = time - 1
               /\ Procs(Self)[k].arrival_time = time - 1
               /\ Procs(Self)[k].bursts[1] = Procs(Self)[j].remaining_time

====
